---- MODULE Spec2Model ----
(***************************************************************************)
(* A model of the drag-gesture handling of ModRangeInput                   *)
(* (src/src/native/mod_range_input.rs): the widget's State and the         *)
(* transition that Widget::on_event makes for every kind of event.         *)
(*                                                                         *)
(* Numbers.  Normal values and the continuous accumulator are f32 in the   *)
(* code.  Here they are fixed-point integers in units of 1e-7, so that     *)
(* 1.0 is One, the default scalar 0.001925 is 19250 per pixel and          *)
(* the product with the default modifier scalar 0.02 is exact (385 per     *)
(* pixel).  Cursor coordinates are whole pixels.  Rounding of f32          *)
(* arithmetic is not modelled.                                             *)
(*                                                                         *)
(* Configuration.  The widget is the one ModRangeInput::new builds: the    *)
(* default scalar, modifier scalar and modifier keys.  Rectangle,          *)
(* Modifiers and Click belong to iced_native; they are modelled at the     *)
(* places on_event calls them, the clock of Click::new as an input.        *)
(*                                                                         *)
(* The decibel conversions of src/src/core/math.rs are modelled on the     *)
(* decibel values that are multiples of 20, where 10^(db/20) is a whole    *)
(* power of ten: an amplitude is its decimal exponent, or zero or          *)
(* infinity when the power leaves the range of the float type.             *)
(***************************************************************************)
EXTENDS Integers, Sequences, FiniteSets, TLC

VARIABLES
    value,              \* state.normal_param.value
    default,            \* state.normal_param.default
    is_dragging,        \* state.is_dragging
    prev_drag_y,        \* state.prev_drag_y
    continuous_normal,  \* state.continuous_normal
    pressed_modifiers,  \* state.pressed_modifiers
    last_click,         \* state.last_click
    event,              \* the event of the last on_event call
    messages,           \* what that call pushed to `messages`
    status,             \* what that call returned
    last_emitted,       \* the value of the latest on_change call, if any
    key_modifiers,      \* the modifiers of the latest key event, if any
    recover,            \* how far a pin at a bound, release, press has come
    nevents,            \* number of calls so far
    drag_origin,        \* where the drag began, while its moves add up
    last_primary,       \* the last primary-button event on_event consumed
    since_set,          \* a State::set call and the drag move after it
    db_in,              \* the decibels given to a conversion round trip
    precision,          \* "f32" or "f64": the pair of functions it uses
    amp,                \* the amplitude db_to_amplitdue returned
    db_out,             \* the decibels amplitude_to_db returned
    pc                  \* how far the round trip has come

\* the variables of the widget and of its observation
widget == << value, default, is_dragging, prev_drag_y, continuous_normal,
             pressed_modifiers, last_click, event, messages, status,
             last_emitted, key_modifiers, recover, nevents, drag_origin,
             last_primary, since_set >>

\* the variables of a conversion round trip
conversion == << db_in, precision, amp, db_out, pc >>

vars == << widget, conversion >>

\* The fields of State (the gesture state), without the observation variables.
state == << value, default, is_dragging, prev_drag_y, continuous_normal,
            pressed_modifiers, last_click >>

-----------------------------------------------------------------------------
\* Bounds of the model.

\* on_event calls in one behaviour
MaxEvents == 6

-----------------------------------------------------------------------------
\* Program constants.

\* 1.0 in units of 1e-7
One == 10000000

\* DEFAULT_SIZE, in pixels
DEFAULT_SIZE == 10

\* DEFAULT_SCALAR = 0.00385 / 2.0 per pixel, in units of 1e-7
DEFAULT_SCALAR == 19250

\* DEFAULT_MODIFIER_SCALAR = 0.02, in hundredths
DEFAULT_MODIFIER_SCALAR == 2

\* the y of "no cursor"
NoCursorY == -1

\* the default modifier_keys: Modifiers { control: true, ..Default::default() }
modifier_keys == {"control"}

-----------------------------------------------------------------------------
\* Inputs.

\* the Normal values a State is constructed with
InitialValues == {0, One \div 2, One}
DefaultValues == {(3 * One) \div 10}

\* cursor positions delivered with the events
Points == { [x |-> 5, y |-> 100], [x |-> 3, y |-> 100], [x |-> 50, y |-> 100],
            [x |-> 5, y |-> 50], [x |-> 5, y |-> 700],
            [x |-> 5, y |-> NoCursorY] }

\* modifier snapshots carried by key events
ModifierSets == SUBSET {"control", "shift"}

\* layout.bounds(): a square of DEFAULT_SIZE pixels
Bounds == [x |-> 0, y |-> 95, width |-> DEFAULT_SIZE, height |-> DEFAULT_SIZE]

\* Rectangle::contains
Contains(r, p) ==
    /\ r.x <= p.x /\ p.x < r.x + r.width
    /\ r.y <= p.y /\ p.y < r.y + r.height

\* a match that wants exactly the given keys pressed
MatchesExactly(pressed, keys) == pressed = keys

\* keyboard::Modifiers::matches: at least the given keys are pressed
Matches(pressed, keys) == keys \subseteq pressed

-----------------------------------------------------------------------------
\* mouse::Click

NoClick == [kind |-> "None", x |-> 0, y |-> 0]

\* click::Kind::next
NextKind(k) == IF k = "Single" THEN "Double"
               ELSE IF k = "Double" THEN "Triple"
               ELSE "Double"

\* mouse::Click::new(position, previous); `recent` says whether the previous
\* click was at most 300 ms ago, which the clock decides
NewClick(p, previous, recent) ==
    [kind |-> IF previous.kind # "None" /\ previous.x = p.x
                 /\ previous.y = p.y /\ recent
              THEN NextKind(previous.kind)
              ELSE "Single",
     x |-> p.x, y |-> p.y]

-----------------------------------------------------------------------------
\* Normal

\* Normal::from(f32): clamps into [0.0, 1.0]
NormalFrom(x) == IF x < 0 THEN 0 ELSE IF x > One THEN One ELSE x

-----------------------------------------------------------------------------
\* The events

MoveEvent(p) == [type |-> "CursorMoved", x |-> p.x, y |-> p.y,
                 modifiers |-> {}, recent |-> FALSE]
PressEvent(p, recent) == [type |-> "ButtonPressedLeft", x |-> p.x, y |-> p.y,
                          modifiers |-> {}, recent |-> recent]
ReleaseEvent(p) == [type |-> "ButtonReleasedLeft", x |-> p.x, y |-> p.y,
                    modifiers |-> {}, recent |-> FALSE]
KeyEvent(t, m) == [type |-> t, x |-> 0, y |-> 0,
                   modifiers |-> m, recent |-> FALSE]
OtherEvent(t) == [type |-> t, x |-> 0, y |-> 0,
                  modifiers |-> {}, recent |-> FALSE]
NoEvent == [type |-> "None", x |-> 0, y |-> 0, modifiers |-> {},
            recent |-> FALSE]

\* the event kinds that on_event matches with `_ => {}`
OtherTypes == {"ButtonPressedRight", "ButtonReleasedRight", "CharacterReceived"}

-----------------------------------------------------------------------------
\* core::math

\* decibels of a round trip: the multiples of 20 in [-1000, 1000]
DbInputs == { 20 * k : k \in (0 - 50) .. 50 }

\* the largest power of ten that is a finite f32 (f32::MAX is 3.4e38) and
\* the smallest that does not round to zero (the least f32 is 1.4e-45)
F32_MAX_10_EXP == 38
F32_LEAST_10_EXP == -45

\* the same of f64 (f64::MAX is 1.8e308, the least f64 is 4.9e-324)
F64_MAX_10_EXP == 308
F64_LEAST_10_EXP == -323

NoAmplitude == [class |-> "none", exp10 |-> 0]
NoDecibels == [class |-> "none", db |-> 0]

\* 10.0.powf(e) for a whole e, in a float type of the given range
Powf10(e, max_exp, least_exp) ==
    IF e > max_exp THEN [class |-> "inf", exp10 |-> 0]
    ELSE IF e < least_exp THEN [class |-> "zero", exp10 |-> 0]
    ELSE [class |-> "finite", exp10 |-> e]

\* 20.0 * a.log10()
TwentyLog10(a) ==
    IF a.class = "inf" THEN [class |-> "inf", db |-> 0]
    ELSE IF a.class = "zero" THEN [class |-> "neg_inf", db |-> 0]
    ELSE [class |-> "finite", db |-> 20 * a.exp10]

\* db * ONE_OVER_20, for db a multiple of 20
TimesOneOver20(db) == db \div 20

db_to_amplitdue_f32(db) ==
    Powf10(TimesOneOver20(db), F32_MAX_10_EXP, F32_LEAST_10_EXP)

db_to_amplitdue_f64(db) ==
    Powf10(TimesOneOver20(db), F64_MAX_10_EXP, F64_LEAST_10_EXP)

amplitude_to_db_f32(a) == TwentyLog10(a)

amplitdue_to_db_f64(a) == TwentyLog10(a)

\* no round trip is under way
ConversionAtRest ==
    /\ db_in = 0
    /\ precision = "f64"
    /\ amp = NoAmplitude
    /\ db_out = NoDecibels
    /\ pc = "none"

\* a caller converts db_in to an amplitude ...
ToAmplitude ==
    /\ pc = "db"
    /\ amp' = IF precision = "f32" THEN db_to_amplitdue_f32(db_in)
              ELSE db_to_amplitdue_f64(db_in)
    /\ pc' = "amplitude"
    /\ UNCHANGED << db_in, precision, db_out >>
    /\ UNCHANGED widget

\* ... and the amplitude back to decibels
ToDecibels ==
    /\ pc = "amplitude"
    /\ db_out' = IF precision = "f32" THEN amplitude_to_db_f32(amp)
                 ELSE amplitdue_to_db_f64(amp)
    /\ pc' = "done"
    /\ UNCHANGED << db_in, precision, amp >>
    /\ UNCHANGED widget

\* State::set, seen as an event
SetEvent(n) ==
    [type |-> "StateSet", x |-> 0, y |-> 0, modifiers |-> {},
     recent |-> FALSE, normal |-> n]

\* the moves of one drag are counted up to two: one move, or several
MaxMoves == 2

\* no drag whose moves add up is followed
NoDragOrigin ==
    [pure |-> FALSE, y |-> 0, normal |-> 0, scaled |-> FALSE,
     moves |-> 0, hit |-> FALSE]

-----------------------------------------------------------------------------
\* State::new; the callback has not been called and no event delivered

InitWidget ==
    /\ value \in InitialValues
    /\ default \in DefaultValues
    /\ is_dragging = FALSE
    /\ prev_drag_y = 0
    /\ continuous_normal = value
    /\ pressed_modifiers = {}
    /\ last_click = NoClick
    /\ event = NoEvent
    /\ messages = << >>
    /\ status = "None"
    /\ last_emitted = [some |-> FALSE, value |-> 0]
    /\ key_modifiers = {}
    /\ recover = "none"
    /\ nevents = 0
    /\ drag_origin = NoDragOrigin
    /\ last_primary = "none"
    /\ since_set = "none"

Init ==
    /\ InitWidget
    /\ ConversionAtRest

\* the normals State::set is called with
SetNormals == {0, (3 * One) \div 4}

\* a move branch that does not ask whether a drag is in progress
DragMoveAnyState(p) == p.y # NoCursorY

\* a move branch that takes the "no cursor" y for a position
DragMoveNoSentinel(p) == is_dragging

\* the guard of the move branch
DragMove(p) == is_dragging /\ p.y # NoCursorY

\* a movement_y measured from y = 0 instead of from prev_drag_y
MovementYAbsolute(y) ==
    LET movement_y == y * DEFAULT_SCALAR
    IN  IF Matches(pressed_modifiers, modifier_keys)
        THEN (movement_y * DEFAULT_MODIFIER_SCALAR) \div 100
        ELSE movement_y

\* a movement_y that the pressed modifier keys never scale
MovementYUnscaled(y) == (y - prev_drag_y) * DEFAULT_SCALAR

\* movement_y of a move to y, scaled when the modifier keys are pressed
MovementY(y) ==
    LET movement_y == (y - prev_drag_y) * DEFAULT_SCALAR
    IN  IF Matches(pressed_modifiers, modifier_keys)
        THEN (movement_y * DEFAULT_MODIFIER_SCALAR) \div 100
        ELSE movement_y

\* The history of a clamp and recover: a drag move whose difference passed a
\* bound ("pinned"), then a release ("released"), then a Single press
\* ("pressed"), then the first move back towards the range ("recovered").
\* A move back towards the range in the drag that pinned the value, with
\* no release between, is "unpinned".
\* Events that on_event ignores, and key events, leave it as it is.
NextRecover(e, pushed, st) ==
    IF e.type = "CursorMoved" /\ st = "Captured"
    THEN LET raw == continuous_normal - MovementY(e.y)
         IN  IF recover = "pressed_hi" /\ e.y >= prev_drag_y
             THEN IF e.y > prev_drag_y THEN "recovered_hi" ELSE "pressed_hi"
             ELSE IF recover = "pressed_lo" /\ e.y <= prev_drag_y
             THEN IF e.y < prev_drag_y THEN "recovered_lo" ELSE "pressed_lo"
             ELSE IF raw > One THEN "pinned_hi"
             ELSE IF raw < 0 THEN "pinned_lo"
             ELSE IF recover = "pinned_hi" /\ e.y > prev_drag_y
             THEN "unpinned_hi"
             ELSE IF recover = "pinned_lo" /\ e.y < prev_drag_y
             THEN "unpinned_lo"
             ELSE "none"
    ELSE IF e.type = "ButtonReleasedLeft"
    THEN IF recover = "pinned_hi" THEN "released_hi"
         ELSE IF recover = "pinned_lo" THEN "released_lo"
         ELSE "none"
    ELSE IF e.type = "ButtonPressedLeft" /\ st = "Captured"
    THEN IF pushed = << >> /\ recover = "released_hi" THEN "pressed_hi"
         ELSE IF pushed = << >> /\ recover = "released_lo" THEN "pressed_lo"
         ELSE "none"
    ELSE IF e.type = "StateSet"
    THEN "none"
    ELSE recover

\* The history of one drag: a Single press records its y, the accumulator
\* and whether the modifier keys scale the moves; the drag is followed
\* while the modifier state stays, no result before the last one reached a
\* bound, and no release, reset or State::set came between.
NextDragOrigin(e, st) ==
    IF e.type = "ButtonPressedLeft" /\ st = "Captured"
    THEN IF NewClick(e, last_click, e.recent).kind = "Single"
         THEN [pure |-> TRUE, y |-> e.y, normal |-> continuous_normal,
               scaled |-> Matches(pressed_modifiers, modifier_keys),
               moves |-> 0, hit |-> FALSE]
         ELSE NoDragOrigin
    ELSE IF e.type \in {"ButtonReleasedLeft", "StateSet"}
    THEN NoDragOrigin
    ELSE IF e.type \in {"KeyPressed", "KeyReleased"}
    THEN IF drag_origin.pure
            /\ Matches(e.modifiers, modifier_keys) = drag_origin.scaled
         THEN drag_origin
         ELSE NoDragOrigin
    ELSE IF e.type = "CursorMoved" /\ st = "Captured"
    THEN LET raw == continuous_normal - MovementY(e.y)
         IN  IF drag_origin.pure /\ ~drag_origin.hit
             THEN [drag_origin EXCEPT
                     !.moves = IF @ < MaxMoves THEN @ + 1 ELSE @,
                     !.hit = raw <= 0 \/ raw >= One]
             ELSE NoDragOrigin
    ELSE drag_origin

\* The last primary-button event that on_event consumed: a press inside
\* the bounds by the kind Click::new gives it, or a release.
NextLastPrimary(e, st) ==
    IF e.type = "ButtonPressedLeft" /\ st = "Captured"
    THEN IF NewClick(e, last_click, e.recent).kind = "Single"
         THEN "single"
         ELSE "multi"
    ELSE IF e.type = "ButtonReleasedLeft" /\ st = "Captured"
    THEN "release"
    ELSE last_primary

\* "set" after State::set, "moved" after the drag move that follows it
NextSinceSet(e, st) ==
    IF e.type = "StateSet" THEN "set"
    ELSE IF since_set = "set" /\ e.type = "CursorMoved" /\ st = "Captured"
    THEN "moved"
    ELSE "none"

\* what every call does to the observation variables
Delivered(e, pushed, st) ==
    /\ nevents < MaxEvents
    /\ nevents' = nevents + 1
    /\ event' = e
    /\ messages' = pushed
    /\ status' = st
    /\ last_emitted' = IF pushed = << >> THEN last_emitted
                       ELSE [some |-> TRUE, value |-> pushed[Len(pushed)]]
    /\ key_modifiers' = IF e.type \in {"KeyPressed", "KeyReleased"}
                        THEN e.modifiers
                        ELSE key_modifiers
    /\ recover' = NextRecover(e, pushed, st)
    /\ drag_origin' = NextDragOrigin(e, st)
    /\ last_primary' = NextLastPrimary(e, st)
    /\ since_set' = NextSinceSet(e, st)
    /\ UNCHANGED conversion

\* a `normal` that is stored as it is, without the clamp
MovedNormalUnclamped(movement_y) == continuous_normal - movement_y

\* a `normal` that adds the movement instead of subtracting it
MovedNormalAdded(movement_y) ==
    LET normal == continuous_normal + movement_y
    IN  IF normal < 0 THEN 0 ELSE IF normal > One THEN One ELSE normal

\* a `normal` that is clamped at 0.0 only
MovedNormalNoUpperClamp(movement_y) ==
    LET normal == continuous_normal - movement_y
    IN  IF normal < 0 THEN 0 ELSE normal

\* the local `normal` of a move: continuous_normal - movement_y, clamped
MovedNormal(movement_y) ==
    LET normal == continuous_normal - movement_y
    IN  IF normal < 0 THEN 0 ELSE IF normal > One THEN One ELSE normal

\* a value taken from the difference as it is, with no clamp on the way
MovedValueRaw(movement_y) == continuous_normal - movement_y

\* the value a move assigns to normal_param.value: normal.into()
MovedValue(movement_y) == NormalFrom(MovedNormal(movement_y))

\* a move branch that does not advance prev_drag_y
CursorMovedNoAdvance ==
    \E p \in Points :
        IF DragMove(p)
        THEN /\ continuous_normal' = MovedNormal(MovementY(p.y))
             /\ UNCHANGED prev_drag_y
             /\ value' = MovedValue(MovementY(p.y))
             /\ Delivered(MoveEvent(p), << value' >>, "Captured")
             /\ UNCHANGED << default, is_dragging, pressed_modifiers,
                             last_click >>
        ELSE /\ Delivered(MoveEvent(p), << >>, "Ignored")
             /\ UNCHANGED state

\* mouse::Event::CursorMoved
CursorMoved ==
    \E p \in Points :
        IF DragMove(p)
        THEN /\ continuous_normal' = MovedNormal(MovementY(p.y))
             /\ prev_drag_y' = p.y
             /\ value' = MovedValue(MovementY(p.y))
             /\ Delivered(MoveEvent(p), << value' >>, "Captured")
             /\ UNCHANGED << default, is_dragging, pressed_modifiers,
                             last_click >>
        ELSE /\ Delivered(MoveEvent(p), << >>, "Ignored")
             /\ UNCHANGED state

\* a Single arm that does not record where the drag starts
SingleClickNoAnchor(p, recent) ==
    /\ is_dragging' = TRUE
    /\ UNCHANGED prev_drag_y
    /\ UNCHANGED value
    /\ Delivered(PressEvent(p, recent), << >>, "Captured")

\* a Single arm that calls on_change with the value it leaves alone
SingleClickEmits(p, recent) ==
    /\ is_dragging' = TRUE
    /\ prev_drag_y' = p.y
    /\ UNCHANGED value
    /\ Delivered(PressEvent(p, recent), << value >>, "Captured")

\* the arm of click.kind() for Kind::Single
SingleClick(p, recent) ==
    /\ is_dragging' = TRUE
    /\ prev_drag_y' = p.y
    /\ UNCHANGED value
    /\ Delivered(PressEvent(p, recent), << >>, "Captured")

\* a reset arm that leaves the drag flag alone
MultiClickKeepsDragging(p, recent) ==
    /\ UNCHANGED is_dragging
    /\ value' = default
    /\ UNCHANGED prev_drag_y
    /\ Delivered(PressEvent(p, recent), << value' >>, "Captured")

\* a reset arm that does not call on_change
MultiClickSilent(p, recent) ==
    /\ is_dragging' = FALSE
    /\ value' = default
    /\ UNCHANGED prev_drag_y
    /\ Delivered(PressEvent(p, recent), << >>, "Captured")

\* the arm of click.kind() for every other kind
MultiClick(p, recent) ==
    /\ is_dragging' = FALSE
    /\ value' = default
    /\ UNCHANGED prev_drag_y
    /\ Delivered(PressEvent(p, recent), << value' >>, "Captured")

\* a press arm that does not ask whether the cursor is inside the bounds
ButtonPressedLeftAnywhere ==
    \E p \in Points, recent \in BOOLEAN :
        LET click == NewClick(p, last_click, recent)
        IN  /\ IF click.kind = "Single"
               THEN SingleClick(p, recent)
               ELSE MultiClick(p, recent)
            /\ last_click' = click
            /\ UNCHANGED << default, continuous_normal, pressed_modifiers >>

\* mouse::Event::ButtonPressed(mouse::Button::Left)
ButtonPressedLeft ==
    \E p \in Points, recent \in BOOLEAN :
        IF Contains(Bounds, p)
        THEN LET click == NewClick(p, last_click, recent)
             IN  /\ IF click.kind = "Single"
                    THEN SingleClick(p, recent)
                    ELSE MultiClick(p, recent)
                 /\ last_click' = click
                 /\ UNCHANGED << default, continuous_normal, pressed_modifiers >>
        ELSE /\ Delivered(PressEvent(p, recent), << >>, "Ignored")
             /\ UNCHANGED state

\* a release that leaves continuous_normal as it is
ReleasedNoSync ==
    /\ is_dragging' = FALSE
    /\ UNCHANGED continuous_normal

\* a release that does not end the drag
ReleasedStillDragging ==
    /\ UNCHANGED is_dragging
    /\ continuous_normal' = value

\* what a release assigns
Released ==
    /\ is_dragging' = FALSE
    /\ continuous_normal' = value

\* mouse::Event::ButtonReleased(mouse::Button::Left)
ButtonReleasedLeft ==
    \E p \in Points :
        /\ Released
        /\ Delivered(ReleaseEvent(p), << >>, "Captured")
        /\ UNCHANGED << value, default, prev_drag_y, pressed_modifiers,
                        last_click >>

\* a KeyPressed arm that falls through to Status::Ignored
KeyPressedIgnored ==
    \E m \in ModifierSets :
        /\ pressed_modifiers' = m
        /\ Delivered(KeyEvent("KeyPressed", m), << >>, "Ignored")
        /\ UNCHANGED << value, default, is_dragging, prev_drag_y,
                        continuous_normal, last_click >>

\* keyboard::Event::KeyPressed { modifiers, .. }
KeyPressed ==
    \E m \in ModifierSets :
        /\ pressed_modifiers' = m
        /\ Delivered(KeyEvent("KeyPressed", m), << >>, "Captured")
        /\ UNCHANGED << value, default, is_dragging, prev_drag_y,
                        continuous_normal, last_click >>

\* a KeyReleased arm that does not take the modifiers of the event
KeyReleasedStale ==
    \E m \in ModifierSets :
        /\ UNCHANGED pressed_modifiers
        /\ Delivered(KeyEvent("KeyReleased", m), << >>, "Captured")
        /\ UNCHANGED << value, default, is_dragging, prev_drag_y,
                        continuous_normal, last_click >>

\* keyboard::Event::KeyReleased { modifiers, .. }
KeyReleased ==
    \E m \in ModifierSets :
        /\ pressed_modifiers' = m
        /\ Delivered(KeyEvent("KeyReleased", m), << >>, "Captured")
        /\ UNCHANGED << value, default, is_dragging, prev_drag_y,
                        continuous_normal, last_click >>

\* every other event: falls through to event::Status::Ignored
Other ==
    \E t \in OtherTypes :
        /\ Delivered(OtherEvent(t), << >>, "Ignored")
        /\ UNCHANGED state

\* a State::set that leaves the accumulator of the drag as it is
SetValueOnly ==
    \E n \in SetNormals :
        /\ value' = n
        /\ Delivered(SetEvent(n), << >>, status)
        /\ UNCHANGED << default, is_dragging, prev_drag_y, continuous_normal,
                        pressed_modifiers, last_click >>

\* State::set
Set ==
    \E n \in SetNormals :
        /\ value' = n
        /\ continuous_normal' = n
        /\ Delivered(SetEvent(n), << >>, status)
        /\ UNCHANGED << default, is_dragging, prev_drag_y, pressed_modifiers,
                        last_click >>

Next ==
    \/ CursorMoved
    \/ ButtonPressedLeft
    \/ ButtonReleasedLeft
    \/ KeyPressed
    \/ KeyReleased
    \/ Other

Spec == Init /\ [][Next]_vars

\* the application calls State::set between the events
NextSet ==
    \/ Next
    \/ Set

SpecSet == Init /\ [][NextSet]_vars

\* the round trips of the decibel conversions, beside a widget at rest
InitConversion ==
    /\ InitWidget
    /\ db_in \in DbInputs
    /\ precision \in {"f32", "f64"}
    /\ amp = NoAmplitude
    /\ db_out = NoDecibels
    /\ pc = "db"

NextConversion ==
    \/ ToAmplitude
    \/ ToDecibels

SpecConversion == InitConversion /\ [][NextConversion]_vars

-----------------------------------------------------------------------------
\* Vocabulary of the properties

\* clamp into [0.0, 1.0]
Clamp01(x) == IF x < 0 THEN 0 ELSE IF x > One THEN One ELSE x

\* the step delivers a pointer move with a real cursor while a drag is on
DragMoveStep ==
    /\ event'.type = "CursorMoved"
    /\ is_dragging
    /\ event'.y # NoCursorY

\* the step delivers a primary-button press inside the bounds
InBoundsPressStep ==
    /\ event'.type = "ButtonPressedLeft"
    /\ Contains(Bounds, [x |-> event'.x, y |-> event'.y])

\* ... whose click is a double click or higher
ResetPressStep ==
    /\ InBoundsPressStep
    /\ last_click'.kind \in {"Double", "Triple"}

\* the distance of the move of this step, in value units
Delta == (event'.y - prev_drag_y) * DEFAULT_SCALAR

-----------------------------------------------------------------------------
\* C1: in every reachable state the committed value lies in [0, 1]; a drag
\* past a bound is clamped and the call still returns a status.
C1_ValueInUnitRange ==
    /\ 0 <= value /\ value <= One
    /\ status \in {"None", "Captured", "Ignored"}

\* a State made with 1.0, pressed at y = 100 and dragged up to y = 50
C1_Witness ==
    /\ nevents = 2
    /\ event.type = "CursorMoved" /\ event.y = 50
    /\ status = "Captured"
    /\ value = One

\* C2: a move during a drag, with a real cursor and the modifier keys not all
\* pressed, commits clamp(continuous_normal - (y - prev_drag_y) * scalar),
\* advances prev_drag_y to y and calls on_change once with the committed
\* value; 0.5 pressed at y = 100 and moved to y = 50 gives 0.59625.
C2_DragMoveCommits ==
    [][ (DragMoveStep /\ ~(modifier_keys \subseteq pressed_modifiers)) =>
          /\ value' = Clamp01(continuous_normal - Delta)
          /\ prev_drag_y' = event'.y
          /\ messages' = << Clamp01(continuous_normal - Delta) >>
          /\ (continuous_normal = One \div 2 /\ prev_drag_y = 100
                /\ event'.y = 50 => value' = 5962500) ]_vars

C2_Witness ==
    /\ nevents = 2
    /\ event.type = "CursorMoved" /\ event.y = 50
    /\ pressed_modifiers = {}
    /\ prev_drag_y = 50
    /\ value = 5962500
    /\ messages = << 5962500 >>

\* C3: an in-bounds primary press that is a double click or higher, idle or
\* dragging, commits the default value, calls on_change exactly once with it
\* and leaves the widget not dragging.
C3_MultiClickResets ==
    [][ ResetPressStep =>
          /\ value' = default
          /\ messages' = << default >>
          /\ is_dragging' = FALSE ]_vars

\* the second of two presses: the first one had started a drag
C3_Witness ==
    /\ nevents = 2
    /\ event.type = "ButtonPressedLeft"
    /\ last_click.kind = "Double"
    /\ value = default /\ value # continuous_normal
    /\ messages = << default >>
    /\ ~is_dragging

\* C4: right after a multi-click reset press the continuous accumulator
\* equals the default value.
C4_ResetSyncsAccumulator ==
    [][ ResetPressStep => continuous_normal' = default ]_vars

\* C5: a primary release during a drag ends the drag and sets the continuous
\* accumulator to the committed value, calls nothing and leaves the committed
\* value as it was.
C5_ReleaseEndsDrag ==
    [][ (event'.type = "ButtonReleasedLeft" /\ is_dragging) =>
          /\ is_dragging' = FALSE
          /\ continuous_normal' = value
          /\ value' = value
          /\ messages' = << >> ]_vars

\* press, reset press, press, release: the drag that the release ends began
\* with the accumulator away from the committed value
C5_Witness ==
    /\ nevents = 4
    /\ event.type = "ButtonReleasedLeft"
    /\ last_click.kind = "Single"
    /\ last_emitted.some
    /\ value = default /\ continuous_normal = default
    /\ ~is_dragging

\* C6: once on_change has been called, the committed value is the value of
\* its latest call.
C6_ValueIsLastEmitted ==
    last_emitted.some => value = last_emitted.value

\* a call of on_change followed by an event that emits nothing
C6_Witness ==
    /\ last_emitted.some
    /\ messages = << >>
    /\ event.type = "ButtonReleasedLeft"
    /\ value = last_emitted.value
    /\ value \notin {default, 0, One}

\* C7: in every reachable state the committed value is the clamp into [0, 1]
\* of the continuous accumulator.
C7_ValueIsClampedAccumulator ==
    value = Clamp01(continuous_normal)

\* C8: a move during a drag while the pressed modifiers are exactly the
\* configured ones scales the movement by modifier_scalar and nothing else
\* of the transition; with no modifier pressed the factor is not applied;
\* 0.5 moved up 50 pixels in fine mode gives 0.501925.
C8_ModifierScalesDelta ==
    [][ DragMoveStep =>
          LET fine == (Delta * DEFAULT_MODIFIER_SCALAR) \div 100
          IN  /\ pressed_modifiers = modifier_keys =>
                    /\ value' = Clamp01(continuous_normal - fine)
                    /\ prev_drag_y' = event'.y
                    /\ messages' = << value' >>
                    /\ UNCHANGED << is_dragging, pressed_modifiers, last_click >>
              /\ pressed_modifiers = {} =>
                    /\ value' = Clamp01(continuous_normal - Delta)
                    /\ prev_drag_y' = event'.y
                    /\ messages' = << value' >>
                    /\ UNCHANGED << is_dragging, pressed_modifiers, last_click >>
              /\ (pressed_modifiers = modifier_keys
                    /\ continuous_normal = One \div 2 /\ prev_drag_y = 100
                    /\ event'.y = 50) => value' = 5019250 ]_vars

\* control pressed, press at y = 100, move to y = 50
C8_Witness ==
    /\ nevents = 3
    /\ event.type = "CursorMoved" /\ event.y = 50
    /\ pressed_modifiers = modifier_keys
    /\ prev_drag_y = 50
    /\ value = 5019250
    /\ messages = << 5019250 >>

\* C9: a primary release while not dragging changes no field of the state
\* and calls nothing.
C9_IdleReleaseIsNoOp ==
    [][ (event'.type = "ButtonReleasedLeft" /\ ~is_dragging) =>
          /\ UNCHANGED state
          /\ messages' = << >> ]_vars

\* C10: a pointer move while not dragging changes no field of the state,
\* calls nothing and is returned as Ignored.
C10_IdleMoveIgnored ==
    [][ (event'.type = "CursorMoved" /\ ~is_dragging) =>
          /\ UNCHANGED state
          /\ messages' = << >>
          /\ status' = "Ignored" ]_vars

\* a move with a real cursor as the first event
C10_Witness ==
    /\ nevents = 1
    /\ event.type = "CursorMoved" /\ event.y = 50
    /\ status = "Ignored"
    /\ messages = << >>
    /\ ~is_dragging

\* C11: a pointer move during a drag whose y is the y of the previous one
\* changes no field of the state and calls nothing.
C11_UnmovedMoveIgnored ==
    [][ (DragMoveStep /\ event'.y = prev_drag_y) =>
          /\ UNCHANGED state
          /\ messages' = << >> ]_vars

\* C12: a pointer move during a drag whose y is the "no cursor" y leaves the
\* committed value, the accumulator, prev_drag_y and is_dragging as they were
\* and calls nothing.
C12_SentinelMoveIgnored ==
    [][ (event'.type = "CursorMoved" /\ is_dragging /\ event'.y = NoCursorY) =>
          /\ UNCHANGED << value, continuous_normal, prev_drag_y, is_dragging >>
          /\ messages' = << >> ]_vars

\* a press that starts a drag, then a move without a cursor
C12_Witness ==
    /\ nevents = 2
    /\ event.type = "CursorMoved" /\ event.y = NoCursorY
    /\ is_dragging
    /\ prev_drag_y = 100
    /\ messages = << >>

\* the movement of this step as the pressed modifiers scale it
AppliedDelta ==
    IF modifier_keys \subseteq pressed_modifiers
    THEN (Delta * DEFAULT_MODIFIER_SCALAR) \div 100
    ELSE Delta

\* the step delivers an in-bounds primary press that is a Single click
SinglePressStep ==
    /\ InBoundsPressStep
    /\ last_click'.kind = "Single"

KeyTypes == {"KeyPressed", "KeyReleased"}

\* C13: in every reachable state pressed_modifiers is the modifiers snapshot
\* of the latest key event, or empty when there was none, idle or dragging;
\* no pointer event changes it.
C13_ModifiersFollowKeyEvents ==
    pressed_modifiers = key_modifiers

\* a drag move made after the keys were pressed
C13_Witness ==
    /\ key_modifiers = {"control", "shift"}
    /\ pressed_modifiers = {"control", "shift"}
    /\ event.type = "CursorMoved" /\ status = "Captured"
    /\ is_dragging

\* C14: a key press or release is returned as Captured, calls nothing and
\* leaves the committed value, the accumulator, is_dragging, prev_drag_y and
\* last_click as they were, idle or dragging.
C14_KeyEventsOnlySetModifiers ==
    [][ event'.type \in KeyTypes =>
          /\ status' = "Captured"
          /\ messages' = << >>
          /\ UNCHANGED << value, continuous_normal, is_dragging, prev_drag_y,
                          last_click >> ]_vars

\* a key press during a drag that has moved the value
C14_Witness ==
    /\ nevents = 3
    /\ event.type = "KeyPressed" /\ event.modifiers = {"control"}
    /\ status = "Captured"
    /\ is_dragging
    /\ value = 5962500 /\ continuous_normal = 5962500
    /\ messages = << >>

\* C15: after a drag was pinned at 1.0 by a move past the bound, a release
\* and a new Single press, the first downward move gives a committed value
\* below 1.0 that equals 1.0 - delta; the same at 0.0 with an upward move.
C15_RecoverByExactDelta ==
    [][ DragMoveStep =>
          /\ (recover = "pressed_hi" /\ event'.y > prev_drag_y) =>
                (value' < One /\ value' = One - AppliedDelta)
          /\ (recover = "pressed_lo" /\ event'.y < prev_drag_y) =>
                (value' > 0 /\ value' = 0 - AppliedDelta) ]_vars

\* C15, amended: ... equals 1.0 - delta clamped at 0.0; at the lower bound
\* it is above 0.0 and equals -delta clamped at 1.0.
C15_RecoverByClampedDelta ==
    [][ DragMoveStep =>
          /\ (recover = "pressed_hi" /\ event'.y > prev_drag_y) =>
                /\ value' < One
                /\ value' = IF AppliedDelta > One THEN 0 ELSE One - AppliedDelta
          /\ (recover = "pressed_lo" /\ event'.y < prev_drag_y) =>
                /\ value' > 0
                /\ value' = IF 0 - AppliedDelta > One THEN One
                            ELSE 0 - AppliedDelta ]_vars

\* pinned at 0.0, released, pressed at y = 100 and moved up to y = 50
C15_Witness ==
    /\ recover = "recovered_lo"
    /\ event.type = "CursorMoved" /\ event.y = 50
    /\ value = 962500
    /\ messages = << 962500 >>

C17_SinglePressStartsDrag ==
    [][ SinglePressStep =>
          /\ is_dragging' = TRUE
          /\ prev_drag_y' = event'.y
          /\ status' = "Captured"
          /\ messages' = << >>
          /\ UNCHANGED << value, continuous_normal >> ]_vars

\* press, a move that commits 0.59625, and a press again during that drag
C17_Witness ==
    /\ nevents = 3
    /\ event.type = "ButtonPressedLeft"
    /\ last_click.kind = "Single"
    /\ is_dragging
    /\ prev_drag_y = 100
    /\ value = 5962500
    /\ status = "Captured"
    /\ messages = << >>

\* C18: a primary press outside the bounds, and a secondary press or
\* release, is returned as Ignored, calls nothing and changes no field of
\* the state, idle or dragging.
C18_OutsideAndSecondaryIgnored ==
    [][ (\/ /\ event'.type = "ButtonPressedLeft"
            /\ ~Contains(Bounds, [x |-> event'.x, y |-> event'.y])
         \/ event'.type \in {"ButtonPressedRight", "ButtonReleasedRight"}) =>
          /\ status' = "Ignored"
          /\ messages' = << >>
          /\ UNCHANGED state ]_vars

\* a primary press to the right of the bounds during a drag
C18_Witness ==
    /\ event.type = "ButtonPressedLeft"
    /\ event.x = 50 /\ event.y = 100
    /\ status = "Ignored"
    /\ is_dragging
    /\ messages = << >>

\* C19: an event causes at most one on_change call; an event that changes
\* the committed value causes exactly one, with the new value; a Single
\* press, a release and a key event cause none.
C19_OneCallPerChange ==
    [][ /\ Len(messages') <= 1
        /\ value' # value => messages' = << value' >>
        /\ (\/ SinglePressStep
            \/ event'.type = "ButtonReleasedLeft"
            \/ event'.type \in KeyTypes) => messages' = << >> ]_vars

\* a reset press that changed the value after a drag had changed it
C19_Witness ==
    /\ event.type = "ButtonPressedLeft"
    /\ last_click.kind = "Double"
    /\ continuous_normal = 5962500
    /\ value = default
    /\ messages = << default >>

\* C20: a drag move applies modifier_scalar whenever all configured modifier
\* keys are pressed, also with other modifiers pressed, and does not apply
\* it when a configured key is not pressed.
C20_SupersetMatch ==
    [][ DragMoveStep =>
          LET fine == (Delta * DEFAULT_MODIFIER_SCALAR) \div 100
          IN  IF \A k \in modifier_keys : k \in pressed_modifiers
              THEN value' = Clamp01(continuous_normal - fine)
              ELSE value' = Clamp01(continuous_normal - Delta) ]_vars

\* control and shift pressed, press at y = 100, move to y = 50
C20_Witness ==
    /\ nevents = 3
    /\ event.type = "CursorMoved" /\ event.y = 50
    /\ pressed_modifiers = {"control", "shift"}
    /\ value = 5019250

\* C21: the round trip of the decibel conversions gives back its argument
\* for every x in [-1000, 1000], within 1e-9 in double and within 1e-4 in
\* single precision: on the multiples of 20 it gives back x itself.
C21_RoundTrip ==
    pc = "done" => (db_out.class = "finite" /\ db_out.db = db_in)

\* the movement of a single move from the press position of the drag to
\* the y the pointer is at, as the modifier state of the drag scales it
DirectMovement ==
    LET movement_y == (prev_drag_y - drag_origin.y) * DEFAULT_SCALAR
    IN  IF drag_origin.scaled
        THEN (movement_y * DEFAULT_MODIFIER_SCALAR) \div 100
        ELSE movement_y

\* C22: within one drag, with the modifier state constant and no result
\* before the last one reaching a bound, the committed value after any
\* sequence of moves is the value of a single move from the press position
\* to the final y: it depends on the press position and the final y only.
C22_MovesAddUp ==
    (drag_origin.pure /\ drag_origin.moves > 0) =>
        value = Clamp01(drag_origin.normal - DirectMovement)

\* control held, 0.5 pressed at y = 100, moved up to y = 50 and then down
\* to y = 700: 0.5 - 600 * 0.0000385
C22_Witness ==
    /\ drag_origin.pure /\ ~drag_origin.hit
    /\ drag_origin.moves = 2
    /\ drag_origin.y = 100 /\ prev_drag_y = 700
    /\ value = 4769000

\* C23: in every state with a drag in progress, a move up (y below
\* prev_drag_y) never lowers the committed value and a move down never
\* raises it.
C23_MoveDirection ==
    [][ DragMoveStep =>
          /\ (event'.y < prev_drag_y) => value' >= value
          /\ (event'.y > prev_drag_y) => value' <= value ]_vars

\* C24: within one drag, once moves past a bound have pinned the committed
\* value there, the next move in the opposite direction moves the value off
\* the bound by exactly its delta, and a drag move leaves the accumulator in
\* [0, 1].
C24_UnpinByExactDelta ==
    [][ DragMoveStep =>
          /\ 0 <= continuous_normal' /\ continuous_normal' <= One
          /\ (recover = "pinned_hi" /\ event'.y > prev_drag_y) =>
                (value' < One /\ value' = One - AppliedDelta)
          /\ (recover = "pinned_lo" /\ event'.y < prev_drag_y) =>
                (value' > 0 /\ value' = 0 - AppliedDelta) ]_vars

\* C24, amended: ... moves the value off the bound by its delta, clamped at
\* the other bound.
C24_UnpinByClampedDelta ==
    [][ DragMoveStep =>
          /\ 0 <= continuous_normal' /\ continuous_normal' <= One
          /\ (recover = "pinned_hi" /\ event'.y > prev_drag_y) =>
                (value' < One /\ value' = Clamp01(One - AppliedDelta))
          /\ (recover = "pinned_lo" /\ event'.y < prev_drag_y) =>
                (value' > 0 /\ value' = Clamp01(0 - AppliedDelta)) ]_vars

\* 1.0 pressed at y = 100, dragged up to y = 50 (pinned) and, with the
\* button still down, back to y = 100: 1.0 - 50 * 0.001925
C24_Witness ==
    /\ nevents = 3
    /\ recover = "unpinned_hi"
    /\ event.type = "CursorMoved" /\ event.y = 100
    /\ value = 9037500
    /\ continuous_normal = 9037500

\* C25: is_dragging is true exactly when the last primary-button event
\* on_event consumed was a press inside the bounds that is a Single click
\* (false initially, after a release anywhere and after a multi-click
\* press), and no other event changes it.
C25_DraggingIffSinglePress ==
    /\ [](is_dragging <=> last_primary = "single")
    /\ [][ event'.type \notin {"ButtonPressedLeft", "ButtonReleasedLeft"} =>
             UNCHANGED is_dragging ]_vars

\* a double click, then a move: the drag the first press began is over
C25_Witness ==
    /\ last_primary = "multi"
    /\ last_click.kind = "Double"
    /\ event.type = "CursorMoved"
    /\ status = "Ignored"
    /\ ~is_dragging

\* C26: State::set(normal) sets the committed value and the accumulator to
\* normal and leaves is_dragging, prev_drag_y, the modifiers and last_click
\* alone; the drag move after it, also in the middle of a drag, is computed
\* from normal.
C26_SetSyncsAccumulator ==
    [][ /\ event'.type = "StateSet" =>
             /\ value' = event'.normal
             /\ continuous_normal' = event'.normal
             /\ UNCHANGED << default, is_dragging, prev_drag_y,
                             pressed_modifiers, last_click >>
        /\ (event.type = "StateSet" /\ DragMoveStep) =>
             value' = Clamp01(event.normal - AppliedDelta) ]_vars

\* pressed at y = 100, set to 0.75 with the button down, moved up to y = 50
C26_Witness ==
    /\ since_set = "moved"
    /\ event.type = "CursorMoved" /\ event.y = 50
    /\ value = 8462500
    /\ continuous_normal = 8462500

====
